---- MODULE Spec2Model ----
(***************************************************************************)
(* A model of raw_to_canvas.py: one run of main(), from the loading of the *)
(* JSON configuration to the writing of the Canvas file.                   *)
(*                                                                         *)
(* A string that the program normalises (a UCInetID of the pairing file)   *)
(* is a sequence of one-character strings, so that lower() and strip() are *)
(* computed; every other string is a TLA+ string.  A pandas DataFrame with *)
(* the index "student" and the column "score" is the sequence of its rows. *)
(* A Python dict is a function; None and a dict are told apart by a tag.   *)
(***************************************************************************)
EXTENDS Integers, Sequences, FiniteSets, TLC

VARIABLES
    pc,             \* position in main(): config, partners, grades, merge, write, done, exit
    exit_code,      \* the process's exit code, -1 while it runs
    config,         \* the JSON configuration file and the paths it names
    partners_csv,   \* rows of the pairing file: <<own id, partner's id>>, as typed
    grades_txt,     \* rows of the raw grade file: <<student, score>>
    partners,       \* main's local `partners`: None or Partners.as_dict()
    warnings,       \* the (k, v) lines printed under "Asymmetric partners"
    df,             \* Grades._df
    output,         \* the output file: whether it was opened, and its lines
    reads           \* the input files read so far

vars == <<pc, exit_code, config, partners_csv, grades_txt, partners,
          warnings, df, output, reads>>

----------------------------------------------------------------------------
(* Bounds of the model *)

MaxScore == 3
MaxGradeRows == 3
MaxPartnerRows == 2

----------------------------------------------------------------------------
(* Strings *)

Lower(ch) ==
    CASE ch = "A" -> "a"
      [] ch = "B" -> "b"
      [] ch = "C" -> "c"
      [] OTHER -> ch

IsSpace(ch) == ch \in {" ", "\t"}

RECURSIVE LStrip(_)
LStrip(s) == IF s # <<>> /\ IsSpace(Head(s)) THEN LStrip(Tail(s)) ELSE s

RECURSIVE RStrip(_)
RStrip(s) ==
    IF s # <<>> /\ IsSpace(s[Len(s)]) THEN RStrip(SubSeq(s, 1, Len(s) - 1)) ELSE s

\* preprocess = lambda x: x.lower().strip()
preprocess(x) == RStrip(LStrip([i \in DOMAIN x |-> Lower(x[i])]))

----------------------------------------------------------------------------
(* Partners *)

None == [tag |-> "None"]
Dict(d) == [tag |-> "dict", d |-> d]

\* d = dict(zip(p1_ucinet_ids, p2_ucinet_ids)): a later row overwrites an
\* earlier row of the same (normalised) student
RECURSIVE DictZip(_)
DictZip(rows) ==
    IF rows = <<>> THEN <<>>
    ELSE LET n == Len(rows)
             init == DictZip(SubSeq(rows, 1, n - 1))
             k == preprocess(rows[n][1])
             v == preprocess(rows[n][2])
         IN [x \in DOMAIN init \cup {k} |-> IF x = k THEN v ELSE init[x]]

\* a mutant of no_partners: only a partner who filled in nothing is reported
no_partners_OnlyMissing(d) ==
    LET bad == {a \in DOMAIN d : d[a] \notin DOMAIN d}
    IN [a \in bad |-> d[a]]

\* no_partners = dict(filter(lambda elem: elem[1] not in d or d[elem[1]] != elem[0], d.items()))
no_partners(d) ==
    LET bad == {a \in DOMAIN d : d[a] \notin DOMAIN d \/ d[d[a]] # a}
    IN [a \in bad |-> d[a]]

\* the lines "k v" printed when no_partners is not empty
Printed(np) == {<<k, np[k]>> : k \in DOMAIN np}

----------------------------------------------------------------------------
(* Config *)

POINTS_POSSIBLE == "points"
ASSIGNMENT_NAME == "assignment"
GRADES == "grades"
PARTNERS == "partners"
OUTPUT_FILE == "output_file"

ConfigKeys == {POINTS_POSSIBLE, ASSIGNMENT_NAME, GRADES, PARTNERS, OUTPUT_FILE}

\* a mutant of verify_config: the output_file key is not checked
verify_config_NoOutputCheck(c) ==
    /\ POINTS_POSSIBLE \in c.keys
    /\ ASSIGNMENT_NAME \in c.keys
    /\ GRADES \in c.keys
    /\ c.grades_is_file
    /\ (PARTNERS \in c.keys => c.partners_is_file)

\* _verify_config: TRUE when it returns, FALSE when it calls exit(1)
verify_config(c) ==
    /\ POINTS_POSSIBLE \in c.keys
    /\ ASSIGNMENT_NAME \in c.keys
    /\ GRADES \in c.keys
    /\ OUTPUT_FILE \in c.keys
    /\ c.grades_is_file
    /\ (PARTNERS \in c.keys => c.partners_is_file)

\* Config.__init__: TRUE when the object is built, FALSE when exit(1) is called
Config_init(c) == c.json_is_file /\ c.json_decodes /\ verify_config(c)

----------------------------------------------------------------------------
(* Grades *)

\* Grades.__init__: one row of the frame per row of the file, in file order;
\* set_index("student") keeps every row (verify_integrity is not asked for)
Grades_init(rows) ==
    [i \in 1..Len(rows) |-> [student |-> rows[i][1], score |-> rows[i][2]]]

\* self._df.index, as a set of labels
Index(frame) == {frame[i].student : i \in DOMAIN frame}

RECURSIVE Loc(_, _)
\* self._df.loc[label]["score"]: the scores of the rows labelled `label`,
\* one for a unique label (a scalar), several for a repeated one (a Series)
Loc(frame, label) ==
    IF frame = <<>> THEN <<>>
    ELSE IF Head(frame).student = label
         THEN <<Head(frame).score>> \o Loc(Tail(frame), label)
         ELSE Loc(Tail(frame), label)

\* a mutant of SetScore: the chained assignment writes to a copy of the row
SetScore_Copy(frame, label, v) == frame

\* a mutant of SetScore: the whole column is assigned
SetScore_All(frame, label, v) ==
    [i \in DOMAIN frame |-> [frame[i] EXCEPT !.score = v]]

\* self._df.loc[label]["score"] = v.  The frame has one column, hence one
\* block, and .loc[label] of a unique label is a view of it in every pandas
\* that still has DataFrame.append: the assignment reaches the frame.
SetScore(frame, label, v) ==
    [i \in DOMAIN frame |->
        IF frame[i].student = label THEN [frame[i] EXCEPT !.score = v]
        ELSE frame[i]]

\* a mutant of MergedScore: the student's score is given to both
MergedScore_NoMin(student_score, partner_score) == student_score

\* min(student_score, partner_score)
MergedScore(student_score, partner_score) ==
    IF partner_score < student_score THEN partner_score ELSE student_score

\* a mutant of PartnerEntry: the absent partner is entered with no points
PartnerEntry_Zero(partner, student_score) ==
    [student |-> partner, score |-> 0]

\* the row {"student": partner, "score": student_score} appended to
\* partner_df; the score of a repeated student is the Series itself
PartnerEntry(partner, student_score) ==
    [student |-> partner,
     score |-> IF Len(student_score) = 1 THEN student_score[1] ELSE student_score]

\* a mutant of Falsy: the early return is never taken
Falsy_Never(p) == FALSE

\* `not partners`
Falsy(p) == p.tag = "None" \/ DOMAIN p.d = {}

\* One iteration of `for student in self._df.index`, at row i.  st.err is an
\* uncaught exception: `student not in None` (TypeError), or min() of a
\* Series (ValueError: its truth value is ambiguous).
MergeVisit(st, p, i) ==
    LET student == st.df[i].student IN
    IF p.tag = "None" THEN [st EXCEPT !.err = TRUE]
    ELSE IF student \notin DOMAIN p.d THEN st
    ELSE LET partner == p.d[student]
             student_score == Loc(st.df, student)
         IN IF partner \notin Index(st.df)
            THEN [st EXCEPT !.partner_df =
                                Append(@, PartnerEntry(partner, student_score))]
            ELSE LET partner_score == Loc(st.df, partner) IN
                 IF Len(student_score) # 1 \/ Len(partner_score) # 1
                 THEN [st EXCEPT !.err = TRUE]
                 ELSE LET m == MergedScore(student_score[1], partner_score[1])
                      IN [st EXCEPT !.df = SetScore(SetScore(@, student, m),
                                                    partner, m)]

RECURSIVE MergeLoop(_, _, _)
MergeLoop(st, p, i) ==
    IF st.err \/ i > Len(st.df) THEN st
    ELSE MergeLoop(MergeVisit(st, p, i), p, i + 1)

\* a mutant of AppendPartners: the partner rows are dropped
AppendPartners_Dropped(frame, partner_df) == frame

\* if not partner_df.empty: self._df = self._df.append(partner_df)
AppendPartners(frame, partner_df) == frame \o partner_df

\* Grades.merge_partners_grades(partners): the frame it leaves, and whether
\* it raised
merge_partners_grades(frame, p) ==
    IF Falsy(p) THEN [df |-> frame, err |-> FALSE]
    ELSE LET st == MergeLoop([df |-> frame, partner_df |-> <<>>, err |-> FALSE],
                             p, 1)
         IN [df |-> AppendPartners(st.df, st.partner_df), err |-> st.err]

----------------------------------------------------------------------------
(* CanvasWriter *)

\* Grades.write: self._df.to_csv(writer, header=False), a line per row
Grades_write(frame) ==
    [i \in 1..Len(frame) |-> <<frame[i].student, frame[i].score>>]

\* CanvasWriter.write: the lines of the file, each the list of its
\* comma-separated fields
CanvasWriter_write(frame, assignment_name, points_possible) ==
    << <<"", assignment_name>>, <<"Points Possible", points_possible>> >>
        \o Grades_write(frame)

NoFile == [opened |-> FALSE, lines |-> <<>>]

----------------------------------------------------------------------------
(* main() *)

\* config = Config(json_file=args.config).as_dict()
ConfigStep ==
    /\ pc = "config"
    /\ IF Config_init(config)
       THEN pc' = "partners" /\ exit_code' = exit_code
       ELSE pc' = "exit" /\ exit_code' = 1
    /\ UNCHANGED <<config, partners_csv, grades_txt, partners, warnings, df,
                   output, reads>>

\* partners = Partners(csv=config["partners"]).as_dict() if "partners" in config else None
PartnersStep ==
    /\ pc = "partners"
    /\ IF PARTNERS \in config.keys
       THEN LET d == DictZip(partners_csv) IN
            /\ partners' = Dict(d)
            /\ warnings' = Printed(no_partners(d))
            /\ reads' = reads \cup {PARTNERS}
       ELSE /\ partners' = None
            /\ UNCHANGED <<warnings, reads>>
    /\ pc' = "grades"
    /\ UNCHANGED <<exit_code, config, partners_csv, grades_txt, df, output>>

\* grades = Grades(csv=config["grades"]); read_csv raises EmptyDataError on
\* a file with no rows
GradesStep ==
    /\ pc = "grades"
    /\ reads' = reads \cup {GRADES}
    /\ IF grades_txt = <<>>
       THEN pc' = "exit" /\ exit_code' = 1 /\ df' = df
       ELSE pc' = "merge" /\ exit_code' = exit_code /\ df' = Grades_init(grades_txt)
    /\ UNCHANGED <<config, partners_csv, grades_txt, partners, warnings, output>>

\* grades.merge_partners_grades(partners)
MergeStep ==
    /\ pc = "merge"
    /\ LET r == merge_partners_grades(df, partners) IN
       IF r.err
       THEN pc' = "exit" /\ exit_code' = 1 /\ df' = df
       ELSE pc' = "write" /\ exit_code' = exit_code /\ df' = r.df
    /\ UNCHANGED <<config, partners_csv, grades_txt, partners, warnings,
                   output, reads>>

\* CanvasWriter.write(output_file=config["output_file"], ...); a missing key
\* is a KeyError
WriteStep ==
    /\ pc = "write"
    /\ IF {OUTPUT_FILE, ASSIGNMENT_NAME, POINTS_POSSIBLE} \subseteq config.keys
       THEN /\ output' = [opened |-> TRUE,
                          lines |-> CanvasWriter_write(df, config.assignment,
                                                       config.points)]
            /\ pc' = "done"
            /\ exit_code' = 0
       ELSE /\ output' = output
            /\ pc' = "exit"
            /\ exit_code' = 1
    /\ UNCHANGED <<config, partners_csv, grades_txt, partners, warnings, df,
                   reads>>

Next == ConfigStep \/ PartnersStep \/ GradesStep \/ MergeStep \/ WriteStep

----------------------------------------------------------------------------
(* Inputs *)

SA == <<"a">>
SB == <<"b">>
SC == <<"c">>

Students == {SA, SB, SC}
StudentOrder == <<SA, SB, SC>>
Scores == 1..MaxScore

\* identifiers as students type them into the form
RawIds == {SA, <<"A", " ">>, <<" ", "b">>, <<"B">>, SC}

Assignments == {"Project 4", "Lab 1"}
Points == {"5", "10"}

\* every configuration file, decodable or not, with any of the keys, naming
\* files that exist or not
Configs ==
    [keys : SUBSET ConfigKeys, json_is_file : BOOLEAN, json_decodes : BOOLEAN,
     grades_is_file : BOOLEAN, partners_is_file : BOOLEAN,
     assignment : Assignments, points : Points]

\* the configurations that Config.__init__ accepts
ValidConfigs ==
    [keys : {ConfigKeys, ConfigKeys \ {PARTNERS}}, json_is_file : {TRUE},
     json_decodes : {TRUE}, grades_is_file : {TRUE}, partners_is_file : {TRUE},
     assignment : Assignments, points : Points]

SeqsUpTo(S, n) == UNION {[1..k -> S] : k \in 0..n}

Unique(rows) ==
    \A i, j \in DOMAIN rows : rows[i][1] = rows[j][1] => i = j

\* grade files of at most n rows
GradeFiles(n) == SeqsUpTo(Students \X Scores, n)

\* grade files of at most n rows, no student on two rows
UniqueGradeFiles(n) == {f \in GradeFiles(n) : Unique(f)}

\* pairing files of at most n rows, as typed
PartnerFiles(n) == SeqsUpTo(RawIds \X RawIds, n)

RECURSIVE RowsOf(_, _)
RowsOf(f, order) ==
    IF order = <<>> THEN <<>>
    ELSE IF Head(order) \in DOMAIN f
         THEN << <<Head(order), f[Head(order)]>> >> \o RowsOf(f, Tail(order))
         ELSE RowsOf(f, Tail(order))

\* pairing files with one row per declaring student, already normalised:
\* one file for every partner relation over Students
RelationFiles ==
    {RowsOf(f, StudentOrder) : f \in UNION {[K -> Students] : K \in SUBSET Students}}

InitRun ==
    /\ pc = "config"
    /\ exit_code = -1
    /\ partners = None
    /\ warnings = {}
    /\ df = <<>>
    /\ output = NoFile
    /\ reads = {}

\* any configuration, two pairing files and two grade files
Init ==
    /\ InitRun
    /\ config \in Configs
    /\ partners_csv \in {<<>>, << <<SA, <<"B">>>>, <<SB, <<"A", " ">>>> >>}
    /\ grades_txt \in {<<>>, << <<SA, 2>>, <<SB, 1>> >>}

Spec == Init /\ [][Next]_vars

\* any pairing file as typed
InitPartners ==
    /\ InitRun
    /\ config \in {c \in ValidConfigs : PARTNERS \in c.keys}
    /\ partners_csv \in PartnerFiles(MaxPartnerRows)
    /\ grades_txt \in {<< <<SA, 2>>, <<SB, 1>> >>}

SpecPartners == InitPartners /\ [][Next]_vars

\* any partner relation, or none, and any grade file with unique students
InitMerge ==
    /\ InitRun
    /\ config \in ValidConfigs
    /\ partners_csv \in (IF PARTNERS \in config.keys THEN RelationFiles ELSE {<<>>})
    /\ grades_txt \in UniqueGradeFiles(MaxGradeRows)

SpecMerge == InitMerge /\ [][Next]_vars

\* any partner relation, or none, and any grade file
InitGrades ==
    /\ InitRun
    /\ config \in {c \in ValidConfigs : c.assignment = "Lab 1" /\ c.points = "5"}
    /\ partners_csv \in (IF PARTNERS \in config.keys THEN RelationFiles ELSE {<<>>})
    /\ grades_txt \in GradeFiles(MaxGradeRows)

SpecGrades == InitGrades /\ [][Next]_vars

----------------------------------------------------------------------------
(* What the claims speak of *)

\* the partner relation handed to the merge (empty when there is none)
Rel == IF partners.tag = "dict" THEN partners.d ELSE <<>>

\* the student has a row in the score record before the merge
Present(s) == \E i \in DOMAIN grades_txt : grades_txt[i][1] = s

\* the scores of the student before the merge, and after it
OrigScores(s) == {grades_txt[i][2] : i \in {j \in DOMAIN grades_txt : grades_txt[j][1] = s}}
FinalScores(s) == {df[i].score : i \in {j \in DOMAIN df : df[j].student = s}}

Least(S) == CHOOSE m \in S : \A x \in S : m <= x

\* merge_partners_grades has returned
Merged == pc \in {"write", "done"}

\* a and b name each other
Reciprocal(a, b) ==
    a \in DOMAIN Rel /\ b \in DOMAIN Rel /\ Rel[a] = b /\ Rel[b] = a

\* no student of the score record other than s names s as partner
NotNamedByOther(s) ==
    \A c \in DOMAIN Rel \ {s} : Present(c) => Rel[c] # s

\* no student of the score record outside the pair names a or b as partner
NoThird(a, b) ==
    \A c \in DOMAIN Rel \ {a, b} : Present(c) => Rel[c] \notin {a, b}

C4_NoPartnersNoOp ==
    (/\ GRADES \in reads
     /\ grades_txt # <<>>
     /\ pc # "merge"
     /\ (partners.tag = "None" \/ DOMAIN partners.d = {})) =>
        /\ pc \in {"write", "done"}
        /\ Len(df) = Len(grades_txt)
        /\ \A i \in DOMAIN df :
            df[i].student = grades_txt[i][1] /\ df[i].score = grades_txt[i][2]

C4_Witness ==
    /\ pc = "write"
    /\ partners.tag = "None"
    /\ PARTNERS \notin config.keys
    /\ Len(df) = 3

MissingKey(c) ==
    {POINTS_POSSIBLE, ASSIGNMENT_NAME, GRADES, OUTPUT_FILE} \ c.keys # {}
BadPath(c) ==
    \/ GRADES \in c.keys /\ ~c.grades_is_file
    \/ PARTNERS \in c.keys /\ ~c.partners_is_file

\* C6: when a required key is missing from the config, or the grades path
\* or a given partners path is not a file, the run goes from the loading of
\* the config to exit code 1: no input file is read, the output file is
\* never opened.
C6_ConfigErrorExits ==
    (MissingKey(config) \/ BadPath(config)) =>
        /\ pc \in {"config", "exit"}
        /\ (pc = "exit" => exit_code = 1)
        /\ (pc = "config" => exit_code = -1)
        /\ reads = {}
        /\ output = NoFile

C6_Witness ==
    /\ pc = "exit"
    /\ exit_code = 1
    /\ config.json_is_file /\ config.json_decodes
    /\ config.keys = ConfigKeys \ {OUTPUT_FILE}
    /\ config.grades_is_file /\ config.partners_is_file

\* the last row of the pairing file filled in by student k
LastRowOf(k) ==
    CHOOSE i \in DOMAIN partners_csv :
        /\ preprocess(partners_csv[i][1]) = k
        /\ \A j \in DOMAIN partners_csv :
            preprocess(partners_csv[j][1]) = k => j <= i

C8_LastRowWins ==
    pc = "merge" =>
        \A s \in Students :
            Present(s) =>
                /\ Cardinality({i \in DOMAIN df : df[i].student = s}) = 1
                /\ \E i \in DOMAIN grades_txt :
                       /\ grades_txt[i][1] = s
                       /\ \A j \in DOMAIN grades_txt : grades_txt[j][1] = s => j <= i
                       /\ FinalScores(s) = {grades_txt[i][2]}

\* C9: for a grade file with unique students the file written is the line
\* ",<assignment>", the line "Points Possible,<points>", then one line
\* "<student>,<score>" per student of the merged record and nothing else, no
\* student on two lines.
C9_OutputFormat ==
    (pc = "done" /\ Unique(grades_txt)) =>
        LET lines == output.lines IN
        /\ output.opened
        /\ Len(lines) = 2 + Cardinality(Index(df))
        /\ lines[1] = <<"", config.assignment>>
        /\ lines[2] = <<"Points Possible", config.points>>
        /\ \A s \in Index(df) :
               /\ Cardinality({i \in 3..Len(lines) : lines[i][1] = s}) = 1
               /\ \E i \in 3..Len(lines) :
                      lines[i][1] = s /\ FinalScores(s) = {lines[i][2]}

====
